---- MODULE Spec2Model ----
(***************************************************************************)
(* Model of the CollapseLoader updater (src/main.py): one launcher process *)
(* per run, working on a version store (the working directory), a remote   *)
(* release registry and a download server.  A run walks through           *)
(*   parse arguments -> get_latest_release -> main:                        *)
(*   delete_old_releases -> os.path.exists -> download_latest_release      *)
(*   -> os.system                                                          *)
(* and several runs follow each other on the same store.                   *)
(***************************************************************************)
EXTENDS Integers, Sequences, FiniteSets, TLC

(* ------------------------------ bounds -------------------------------- *)

\* Launcher runs that follow each other on the same store.
MaxRuns == 2
\* Command-line arguments given to one run.
MaxArgs == 2
\* Entries of the registry's "all releases" answer.
MaxReleases == 2
\* Chunks of a download body.
MaxChunks == 2

(* --------------------------- program constants ------------------------ *)

\* chunk_size of response.iter_content
ChunkSize == 8192

\* The literal prefix of glob.glob("CollapseLoader*")
Prefix == <<"C", "o", "l", "l", "a", "p", "s", "e", "L", "o", "a", "d", "e", "r">>

(* ------------------------------ file names ---------------------------- *)

\* File names are sequences of characters, so that the glob is a real prefix test.
N1 == Prefix \o <<"1">>
N2 == Prefix \o <<"2">>
N3 == Prefix \o <<"3">>
NApp == <<"A", "p", "p">>

\* The names the store is observed at.
Names == {N1, N2, N3, NApp}

\* A value that is no file name, no release and no launch.
None == <<>>

\* A pattern that matches every name.
GlobMatch_Any(name) == TRUE

\* glob's pattern "CollapseLoader*": the name starts with the literal prefix.
GlobMatch(name) ==
    /\ Len(name) >= Len(Prefix)
    /\ SubSeq(name, 1, Len(Prefix)) = Prefix

(* ------------------------------ the store ----------------------------- *)

\* A directory entry: nothing, a regular file, or a directory.  whole tells a
\* file that was written to its end from one that a download left unfinished;
\* the program cannot read it, it only records what happened.
NoEntry == [kind |-> "none", whole |-> FALSE]
DirEntry == [kind |-> "dir", whole |-> FALSE]
FileEntry(w) == [kind |-> "file", whole |-> w]

\* The stores a first run may find: builds of earlier releases, each written to
\* its end, and at most one directory.
InitStores ==
    {s \in [Names -> {NoEntry, DirEntry, FileEntry(TRUE)}] :
        Cardinality({n \in Names : s[n] = DirEntry}) <= 1}

(* ------------------------------ arguments ----------------------------- *)

\* What an operator may type after the program's name.
Tokens == {"--prelease", "x"}

RECURSIVE SeqsUpTo(_, _)
SeqsUpTo(S, n) ==
    IF n = 0 THEN {<<>>}
    ELSE LET shorter == SeqsUpTo(S, n - 1)
         IN  shorter \cup {Append(q, x) : q \in {r \in shorter : Len(r) = n - 1}, x \in S}

ArgVectors == SeqsUpTo(Tokens, MaxArgs)

IsPrelease(tok) == tok = "--prelease"
IsOther(tok) == ~IsPrelease(tok)

\* parser.parse_known_args(): the store_true flag, and the arguments left over.
ParseKnownArgs(av) ==
    [prelease |-> \E i \in 1..Len(av) : IsPrelease(av[i]),
     unknown |-> SelectSeq(av, IsOther)]

(* ------------------------------ the registry -------------------------- *)

\* The size the registry declares for an asset (0: unknown).
DeclaredSize(name) ==
    IF name = N2 THEN ChunkSize + 1 ELSE IF name = N3 THEN ChunkSize ELSE 0

Asset(name) == [name |-> name, size |-> DeclaredSize(name)]

\* The asset list published under a tag: one asset, two assets, or none.
AssetsOf(tag) ==
    CASE tag = "A" -> <<Asset(N2)>>
      [] tag = "B" -> <<Asset(N3)>>
      [] tag = "C" -> <<Asset(NApp), Asset(N2)>>
      [] OTHER -> <<>>

Tags == {"A", "B", "C", "D"}

Release(tag, pre) == [tag |-> tag, prerelease |-> pre, assets |-> AssetsOf(tag)]

Releases == {Release(t, p) : t \in Tags, p \in BOOLEAN}

\* The answers of the "all releases" endpoint, newest first.
ReleaseLists == SeqsUpTo(Releases, MaxReleases)

\* The answers of the "latest release" endpoint.
LatestReleases == {r \in Releases : ~r.prerelease}

\* What requests.get gives back: a transport error, or a status and a body.
Statuses == {200, 202, 404, 429}

\* response.raise_for_status(): HTTPError for 4xx and 5xx.
RaisesForStatus(status) == status >= 400 /\ status < 600

\* The value get_latest_release returns when it fails (Python's False).
False == [false |-> TRUE]

\* Python's truth test of self.latest_release.
Truthy(release) == release # False

Response(err, status, json) == [err |-> err, status |-> status, json |-> json]

\* The answers the registry may give to a run on the given channel.
Responses(prelease) ==
    {Response(TRUE, 0, None)}
        \cup {Response(FALSE, s, None) : s \in Statuses \ {200}}
        \cup {Response(FALSE, 200, j) :
                 j \in IF prelease THEN ReleaseLists ELSE LatestReleases}

\* A loop that keeps the last entry flagged as pre-release instead of returning
\* at the first.
RECURSIVE LastPrerelease(_)
LastPrerelease(releases) ==
    IF releases = <<>> THEN False
    ELSE IF LastPrerelease(Tail(releases)) # False THEN LastPrerelease(Tail(releases))
    ELSE IF Head(releases).prerelease THEN Head(releases)
    ELSE False

\* for release in response.json(): if release['prerelease']: return release
RECURSIVE FirstPrerelease(_)
FirstPrerelease(releases) ==
    IF releases = <<>> THEN False
    ELSE IF Head(releases).prerelease THEN Head(releases)
    ELSE FirstPrerelease(Tail(releases))

Outcome(value, report) == [value |-> value, report |-> report]

\* Updater.get_latest_release: the release, or False and the message printed.
GetLatestRelease(prelease, resp) ==
    IF resp.err THEN Outcome(False, "fetch_failed")
    ELSE IF RaisesForStatus(resp.status) THEN Outcome(False, "fetch_failed")
    ELSE IF resp.status = 429 THEN Outcome(False, "rate_limit")
    ELSE IF resp.status # 200 THEN Outcome(False, "fetch_failed")
    ELSE IF prelease
         THEN IF FirstPrerelease(resp.json) = False
              THEN Outcome(False, "no_prerelease")
              ELSE Outcome(FirstPrerelease(resp.json), "")
         ELSE Outcome(resp.json, "")

(* ------------------------------ the download -------------------------- *)

\* The body lengths the download server may send.
BodySizes ==
    {0} \cup {k * ChunkSize : k \in 1..MaxChunks}
        \cup {(k - 1) * ChunkSize + 1 : k \in 2..MaxChunks}

\* The length of the next chunk iter_content yields when left bytes remain.
NextChunk(left) == IF left < ChunkSize THEN left ELSE ChunkSize

(* ------------------------------ the state ----------------------------- *)

VARIABLES
    store,                      \* the working directory
    run,                        \* the number of the current run
    pc,                         \* where the current run stands
    argv,                       \* sys.argv[1:] of the current run
    args,                       \* args, unknown of parse_known_args
    latest_release,             \* self.latest_release
    report,                     \* the message get_latest_release printed
    latest_release_filename,    \* main's local
    old_releases,               \* delete_old_releases: the listed names still to visit
    old_release,                \* delete_old_releases: the name being removed
    body,                       \* bytes of the download body not yet received
    written,                    \* bytes written by this run's download
    downloads,                  \* download requests this run has sent
    launched,                   \* what this run gave to os.system
    diedAt,                     \* where this run raised or was terminated
    prev,                       \* the name the previous run launched
    store0,                     \* the store as the current run found it
    external,                   \* the name another process deleted during this run
    response,                   \* the registry's answer, when the run is given it
    prunes,                     \* calls of delete_old_releases in this run
    child,                      \* the command os.system started: none, running, exited
    dl_status,                  \* the status of the download answer (0: none)
    prevFailed                  \* the target of the previous run, if its download
                                \* request was answered with an error status

vars == <<store, run, pc, argv, args, latest_release, report,
          latest_release_filename, old_releases, old_release, body, written,
          downloads, launched, diedAt, prev, store0, external, response,
          prunes, child, dl_status, prevFailed>>

\* What only the start of a run, another process or the registry sets.
aux == <<store0, external, response>>

\* What one action each of the run sets: the prune, the launch, the download
\* request, the start of the next run.
more == <<prunes, child, dl_status, prevFailed>>

\* os.path.exists
Exists(name) == store[name].kind # "none"

\* os.path.isfile
IsFile(name) == store[name].kind = "file"

\* A launch: the command's name and arguments, and what the store held under
\* that name when the command was started.
Launch(name, av, entry) == [name |-> name, args |-> av, entry |-> entry]
NoLaunch == Launch(None, <<>>, NoEntry)

\* The positions a run goes through, in the order of the code.
Running ==
    {"init", "main", "prune_list", "prune_loop", "prune_remove", "exists",
     "dl_request", "dl_open", "dl_stream", "handoff", "child"}
Ended == {"exit", "crashed", "killed"}

Init ==
    /\ store \in InitStores
    /\ run = 1
    /\ pc = "init"
    /\ argv \in ArgVectors
    /\ args = ParseKnownArgs(argv)
    /\ latest_release = False
    /\ report = ""
    /\ latest_release_filename = None
    /\ old_releases = {}
    /\ old_release = None
    /\ body = 0
    /\ written = 0
    /\ downloads = 0
    /\ launched = NoLaunch
    /\ diedAt = ""
    /\ prev = None
    /\ store0 = store
    /\ external = None
    /\ response = None
    /\ prunes = 0
    /\ child = "none"
    /\ dl_status = 0
    /\ prevFailed = None

\* An exception nobody catches ends the run with a traceback.
Raise == pc' = "crashed" /\ diedAt' = pc

(* ------------------------------ the actions --------------------------- *)

\* Updater.__init__: self.latest_release = self.get_latest_release()
GetLatest ==
    /\ pc = "init"
    /\ \E resp \in Responses(args.prelease) :
          LET got == GetLatestRelease(args.prelease, resp)
          IN  /\ latest_release' = got.value
              /\ report' = got.report
    /\ pc' = "main"
    /\ UNCHANGED <<store, run, argv, args, latest_release_filename, old_releases,
                   old_release, body, written, downloads, launched, diedAt, prev, aux,
                   more>>

\* A main that falls back to a build already in the store when there is no release.
MainEnter_Fallback ==
    /\ pc = "main"
    /\ IF ~Truthy(latest_release)
       THEN IF \E n \in Names : IsFile(n) /\ GlobMatch(n)
            THEN /\ latest_release_filename' =
                       CHOOSE n \in Names : IsFile(n) /\ GlobMatch(n)
                 /\ pc' = "handoff"
                 /\ UNCHANGED diedAt
            ELSE pc' = "exit" /\ UNCHANGED <<latest_release_filename, diedAt>>
       ELSE IF Len(latest_release.assets) = 0
       THEN Raise /\ UNCHANGED latest_release_filename
       ELSE /\ latest_release_filename' = latest_release.assets[1].name
            /\ pc' = "prune_list"
            /\ UNCHANGED diedAt
    /\ UNCHANGED <<store, run, argv, args, latest_release, report, old_releases,
                   old_release, body, written, downloads, launched, prev, aux,
                   more>>

\* A main that leaves the old releases alone until the download is done.
MainEnter_PruneLater ==
    /\ pc = "main"
    /\ IF ~Truthy(latest_release)
       THEN pc' = "exit" /\ UNCHANGED <<latest_release_filename, diedAt>>
       ELSE IF Len(latest_release.assets) = 0
       THEN Raise /\ UNCHANGED latest_release_filename
       ELSE /\ latest_release_filename' = latest_release.assets[1].name
            /\ pc' = "exists"
            /\ UNCHANGED diedAt
    /\ UNCHANGED <<store, run, argv, args, latest_release, report, old_releases,
                   old_release, body, written, downloads, launched, prev, aux,
                   more>>

\* A main that deletes the old releases before it looks at self.latest_release.
MainEnter_PruneFirst ==
    /\ pc = "main"
    /\ IF ~Truthy(latest_release)
       THEN /\ latest_release_filename' = None
            /\ pc' = "prune_list"
            /\ UNCHANGED diedAt
       ELSE IF Len(latest_release.assets) = 0
       THEN Raise /\ UNCHANGED latest_release_filename
       ELSE /\ latest_release_filename' = latest_release.assets[1].name
            /\ pc' = "prune_list"
            /\ UNCHANGED diedAt
    /\ UNCHANGED <<store, run, argv, args, latest_release, report, old_releases,
                   old_release, body, written, downloads, launched, prev, aux,
                   more>>

\* main: if self.latest_release: ... self.latest_release['assets'][0]['name']
MainEnter ==
    /\ pc = "main"
    /\ IF ~Truthy(latest_release)
       THEN pc' = "exit" /\ UNCHANGED <<latest_release_filename, diedAt>>
       ELSE IF Len(latest_release.assets) = 0
       THEN Raise /\ UNCHANGED latest_release_filename
       ELSE /\ latest_release_filename' = latest_release.assets[1].name
            /\ pc' = "prune_list"
            /\ UNCHANGED diedAt
    /\ UNCHANGED <<store, run, argv, args, latest_release, report, old_releases,
                   old_release, body, written, downloads, launched, prev, aux,
                   more>>

\* delete_old_releases: old_releases = glob.glob("CollapseLoader*")
PruneList ==
    /\ pc = "prune_list"
    /\ old_releases' = {n \in Names : Exists(n) /\ GlobMatch(n)}
    /\ pc' = "prune_loop"
    /\ prunes' = prunes + 1
    /\ UNCHANGED <<store, run, argv, args, latest_release, report,
                   latest_release_filename, old_release, body, written, downloads,
                   launched, diedAt, prev, aux, child, dl_status, prevFailed>>

\* A test that forgets exclude_file.
ToRemove_NoExclude(name, exclude_file) == IsFile(name)

\* The test of one listed name against exclude_file and os.path.isfile.
ToRemove(name, exclude_file) == name # exclude_file /\ IsFile(name)

\* delete_old_releases: the loop takes the next listed name and tests it.
PruneCheck ==
    /\ pc = "prune_loop"
    /\ \E n \in old_releases :
          /\ old_releases' = old_releases \ {n}
          /\ IF ToRemove(n, latest_release_filename)
             THEN old_release' = n /\ pc' = "prune_remove"
             ELSE old_release' = None /\ pc' = "prune_loop"
    /\ UNCHANGED <<store, run, argv, args, latest_release, report,
                   latest_release_filename, body, written, downloads, launched,
                   diedAt, prev, aux,
                   more>>

\* delete_old_releases: os.remove(old_release); FileNotFoundError when it is gone.
PruneRemove ==
    /\ pc = "prune_remove"
    /\ IF IsFile(old_release)
       THEN /\ store' = [store EXCEPT ![old_release] = NoEntry]
            /\ pc' = "prune_loop"
            /\ UNCHANGED diedAt
       ELSE Raise /\ UNCHANGED store
    /\ old_release' = None
    /\ UNCHANGED <<run, argv, args, latest_release, report,
                   latest_release_filename, old_releases, body, written, downloads,
                   launched, prev, aux,
                   more>>

\* delete_old_releases returns once every listed name was visited.
PruneDone ==
    /\ pc = "prune_loop"
    /\ old_releases = {}
    /\ pc' = "exists"
    /\ UNCHANGED <<store, run, argv, args, latest_release, report,
                   latest_release_filename, old_releases, old_release, body,
                   written, downloads, launched, diedAt, prev, aux,
                   more>>

\* A main that downloads whether or not the file is there.
ExistsCheck_Always ==
    /\ pc = "exists"
    /\ pc' = "dl_request"
    /\ UNCHANGED <<store, run, argv, args, latest_release, report,
                   latest_release_filename, old_releases, old_release, body,
                   written, downloads, launched, diedAt, prev, aux,
                   more>>

\* main: if not os.path.exists(latest_release_filename): download, else launch.
ExistsCheck ==
    /\ pc = "exists"
    /\ pc' = IF ~Exists(latest_release_filename) THEN "dl_request" ELSE "handoff"
    /\ UNCHANGED <<store, run, argv, args, latest_release, report,
                   latest_release_filename, old_releases, old_release, body,
                   written, downloads, launched, diedAt, prev, aux,
                   more>>

\* What the download server may answer: a transport error, or a status and a body.
DownloadAnswers ==
    {Response(TRUE, 0, 0)}
        \cup {Response(FALSE, 404, 0)}
        \cup {Response(FALSE, 200, n) : n \in BodySizes}

\* A download that opens the file before it looks at the status.
DlRequest_OpenFirst ==
    /\ pc = "dl_request"
    /\ downloads' = downloads + 1
    /\ store' = [store EXCEPT ![latest_release.assets[1].name] = FileEntry(FALSE)]
    /\ \E resp \in DownloadAnswers :
          /\ dl_status' = resp.status
          /\ IF resp.err \/ RaisesForStatus(resp.status)
             THEN Raise /\ UNCHANGED body
             ELSE pc' = "dl_open" /\ body' = resp.json /\ UNCHANGED diedAt
    /\ UNCHANGED <<run, argv, args, latest_release, report,
                   latest_release_filename, old_releases, old_release, written,
                   launched, prev, aux, prunes, child, prevFailed>>

\* download_latest_release: requests.get(download_url, stream=True) and
\* response.raise_for_status()
DlRequest ==
    /\ pc = "dl_request"
    /\ downloads' = downloads + 1
    /\ \E resp \in DownloadAnswers :
          /\ dl_status' = resp.status
          /\ IF resp.err \/ RaisesForStatus(resp.status)
             THEN Raise /\ UNCHANGED body
             ELSE pc' = "dl_open" /\ body' = resp.json /\ UNCHANGED diedAt
    /\ UNCHANGED <<store, run, argv, args, latest_release, report,
                   latest_release_filename, old_releases, old_release, written,
                   launched, prev, aux, prunes, child, prevFailed>>

\* download_latest_release: open(asset["name"], "wb") creates or truncates the file.
DlOpen ==
    /\ pc = "dl_open"
    /\ LET name == latest_release.assets[1].name
       IN  IF store[name].kind = "dir"
           THEN Raise /\ UNCHANGED store
           ELSE /\ store' = [store EXCEPT ![name] = FileEntry(FALSE)]
                /\ pc' = "dl_stream"
                /\ UNCHANGED diedAt
    /\ written' = 0
    /\ UNCHANGED <<run, argv, args, latest_release, report,
                   latest_release_filename, old_releases, old_release, body,
                   downloads, launched, prev, aux,
                   more>>

\* download_latest_release: file.write(chunk) for the next chunk of the stream.
DlChunk ==
    /\ pc = "dl_stream"
    /\ body > 0
    /\ LET name == latest_release.assets[1].name
           chunk == NextChunk(body)
       IN  /\ store' = [store EXCEPT ![name] = FileEntry(FALSE)]
           /\ written' = written + chunk
           /\ body' = body - chunk
    /\ UNCHANGED <<run, pc, argv, args, latest_release, report,
                   latest_release_filename, old_releases, old_release, downloads,
                   launched, diedAt, prev, aux,
                   more>>

\* A download that catches the broken connection and returns as if it had ended.
DlBreak_Swallowed ==
    /\ pc = "dl_stream"
    /\ body > 0
    /\ pc' = "handoff"
    /\ UNCHANGED <<store, run, argv, args, latest_release, report,
                   latest_release_filename, old_releases, old_release, body,
                   written, downloads, launched, diedAt, prev, aux,
                   more>>

\* download_latest_release: the connection breaks while the body is read;
\* iter_content raises and the with block closes the file.
DlBreak ==
    /\ pc = "dl_stream"
    /\ body > 0
    /\ Raise
    /\ UNCHANGED <<store, run, argv, args, latest_release, report,
                   latest_release_filename, old_releases, old_release, body,
                   written, downloads, launched, prev, aux,
                   more>>

\* download_latest_release: the stream ends, the file is closed.
DlEnd ==
    /\ pc = "dl_stream"
    /\ body = 0
    /\ LET name == latest_release.assets[1].name
       IN  store' = [store EXCEPT ![name] = FileEntry(TRUE)]
    /\ pc' = "handoff"
    /\ UNCHANGED <<run, argv, args, latest_release, report,
                   latest_release_filename, old_releases, old_release, body,
                   written, downloads, launched, diedAt, prev, aux,
                   more>>

\* A command that names the build of an earlier release.
Command_Stale(name, av) == <<N1>> \o av

\* main: command = [latest_release_filename] + sys.argv[1:]
Command(name, av) == <<name>> \o av

\* main: os.system(" ".join(command)) starts the command and waits for it.
Handoff ==
    /\ pc = "handoff"
    /\ LET command == Command(latest_release_filename, argv)
       IN  launched' = Launch(Head(command), Tail(command), store[Head(command)])
    /\ pc' = "child"
    /\ child' = "running"
    /\ UNCHANGED <<store, run, argv, args, latest_release, report,
                   latest_release_filename, old_releases, old_release, body,
                   written, downloads, diedAt, prev, aux, prunes, dl_status,
                   prevFailed>>

\* The command that os.system started comes to its end, if it ever does.
ChildExit ==
    /\ pc = "child"
    /\ child = "running"
    /\ child' = "exited"
    /\ UNCHANGED <<store, run, pc, argv, args, latest_release, report,
                   latest_release_filename, old_releases, old_release, body,
                   written, downloads, launched, diedAt, prev, aux, prunes,
                   dl_status, prevFailed>>

\* An os.system that starts the command and returns at once.
SystemReturn_NoWait ==
    /\ pc = "child"
    /\ pc' = "exit"
    /\ UNCHANGED <<store, run, argv, args, latest_release, report,
                   latest_release_filename, old_releases, old_release, body,
                   written, downloads, launched, diedAt, prev, aux, more>>

\* os.system returns when the command has ended; main returns and the run ends.
SystemReturn ==
    /\ pc = "child"
    /\ child = "exited"
    /\ pc' = "exit"
    /\ UNCHANGED <<store, run, argv, args, latest_release, report,
                   latest_release_filename, old_releases, old_release, body,
                   written, downloads, launched, diedAt, prev, aux, more>>

\* The positions of download_latest_release.
Downloading == {"dl_request", "dl_open", "dl_stream"}

\* The operator or the system terminates the launcher while it downloads.
Kill ==
    /\ pc \in Downloading
    /\ pc' = "killed"
    /\ diedAt' = pc
    /\ UNCHANGED <<store, run, argv, args, latest_release, report,
                   latest_release_filename, old_releases, old_release, body,
                   written, downloads, launched, prev, aux,
                   more>>

\* The launcher is started again on the same store.
NextRun ==
    /\ pc \in Ended
    /\ run < MaxRuns
    /\ run' = run + 1
    /\ pc' = "init"
    /\ argv' \in ArgVectors
    /\ args' = ParseKnownArgs(argv')
    /\ latest_release' = False
    /\ report' = ""
    /\ latest_release_filename' = None
    /\ old_releases' = {}
    /\ old_release' = None
    /\ body' = 0
    /\ written' = 0
    /\ downloads' = 0
    /\ launched' = NoLaunch
    /\ diedAt' = ""
    /\ prev' = launched.name
    /\ store0' = store
    /\ external' = None
    /\ prunes' = 0
    /\ child' = "none"
    /\ dl_status' = 0
    /\ prevFailed' =
           IF pc = "crashed" /\ diedAt = "dl_request" /\ RaisesForStatus(dl_status)
           THEN latest_release_filename ELSE None
    /\ UNCHANGED <<store, response>>

Next ==
    \/ GetLatest
    \/ MainEnter
    \/ PruneList
    \/ PruneCheck
    \/ PruneRemove
    \/ PruneDone
    \/ ExistsCheck
    \/ DlRequest
    \/ DlOpen
    \/ DlChunk
    \/ DlBreak
    \/ DlEnd
    \/ Handoff
    \/ ChildExit
    \/ SystemReturn
    \/ Kill
    \/ NextRun

Spec == Init /\ [][Next]_vars

(* ------------------- another process deleting files ------------------- *)

\* Another process deletes an old release that delete_old_releases has listed
\* and not yet removed; once in a run.
ExternalDelete ==
    /\ pc \in {"prune_loop", "prune_remove"}
    /\ external = None
    /\ \E n \in old_releases \cup ({old_release} \ {None}) :
          /\ IsFile(n)
          /\ n # latest_release_filename
          /\ store' = [store EXCEPT ![n] = NoEntry]
          /\ external' = n
    /\ UNCHANGED <<run, pc, argv, args, latest_release, report,
                   latest_release_filename, old_releases, old_release, body,
                   written, downloads, launched, diedAt, prev, store0, response,
                   more>>

NextExt == Next \/ ExternalDelete

SpecExt == Init /\ [][NextExt]_vars

(* ------------------- get_latest_release on a given answer -------------- *)

\* A run that is handed the registry's answer when it starts.
InitResolve ==
    /\ store \in {[n \in Names |-> NoEntry], [n \in Names |-> FileEntry(TRUE)]}
    /\ run = 1
    /\ pc = "init"
    /\ argv \in ArgVectors
    /\ args = ParseKnownArgs(argv)
    /\ latest_release = False
    /\ report = ""
    /\ latest_release_filename = None
    /\ old_releases = {}
    /\ old_release = None
    /\ body = 0
    /\ written = 0
    /\ downloads = 0
    /\ launched = NoLaunch
    /\ diedAt = ""
    /\ prev = None
    /\ store0 = store
    /\ external = None
    /\ response \in Responses(args.prelease)
    /\ prunes = 0
    /\ child = "none"
    /\ dl_status = 0
    /\ prevFailed = None

\* Updater.__init__: self.latest_release = self.get_latest_release(), on response.
Resolve ==
    /\ pc = "init"
    /\ LET got == GetLatestRelease(args.prelease, response)
       IN  /\ latest_release' = got.value
           /\ report' = got.report
    /\ pc' = "main"
    /\ UNCHANGED <<store, run, argv, args, latest_release_filename, old_releases,
                   old_release, body, written, downloads, launched, diedAt, prev, aux,
                   more>>

NextResolve == Resolve \/ MainEnter

SpecResolve == InitResolve /\ [][NextResolve]_vars

(* ------------------------------ properties ---------------------------- *)

TypeOK ==
    /\ run \in 1..MaxRuns
    /\ pc \in Running \cup Ended
    /\ argv \in ArgVectors
    /\ store \in [Names -> {NoEntry, DirEntry, FileEntry(TRUE), FileEntry(FALSE)}]
    /\ latest_release \in Releases \cup {False}
    /\ old_releases \subseteq Names

\* The regular files of a store whose names match the release prefix.
Artifacts(st) == {n \in Names : st[n].kind = "file" /\ GlobMatch(n)}

\* The run has ended on an exception or was terminated.
Died == pc \in {"crashed", "killed"}

\* The run has started a command.
HandedOff == launched.name # None

\* C1: a download interrupted mid-stream (the connection breaks or the process
\* is terminated after a chunk was written and before the stream ended) leaves
\* no file under the asset's name.
C1_InterruptedLeavesNoFile ==
    (Died /\ diedAt = "dl_stream" /\ written > 0 /\ body > 0)
        => ~Exists(latest_release_filename)

\* C2: over any sequence of runs on the same store, a run never starts a file
\* that an interrupted download left unfinished.
C2_NeverLaunchesPartial ==
    (HandedOff /\ launched.entry.kind = "file") => launched.entry.whole

\* C3: resolution never yields a candidate without an asset: a selected release
\* that lists no asset makes resolution fail.
C3_CandidateHasAsset ==
    Truthy(latest_release) => Len(latest_release.assets) >= 1

\* C4: the started command gets the launcher's own arguments with the
\* pre-release flag removed, the others kept in order.
C4_ForwardsWithoutFlag ==
    HandedOff => launched.args = ParseKnownArgs(argv).unknown

\* C5: when delete_old_releases(exclude_file) has returned, at most one regular
\* file matching the prefix remains, and exclude_file is still there if it was
\* there before the call (nothing changes the store between the start of the
\* run and the call, so store0 is the store before the call).
C5_PruneLeavesAtMostOne ==
    pc = "exists" =>
        /\ Cardinality(Artifacts(store)) <= 1
        /\ Artifacts(store) \subseteq {latest_release_filename}
        /\ store0[latest_release_filename].kind # "none"
               => store[latest_release_filename] = store0[latest_release_filename]

\* C5's case: two old releases were removed and the excluded file was kept.
C5_Witness ==
    /\ pc = "exists"
    /\ latest_release_filename = N3
    /\ Artifacts(store0) = {N1, N2, N3}
    /\ Artifacts(store) = {N3}

\* C6: when another process deletes a listed old release before
\* delete_old_releases removes it, the call still ends without an error and
\* leaves no old release, and the run goes on to the download or the launch.
C6_ExternalDeleteTolerated ==
    external # None =>
        /\ ~(pc = "crashed" /\ diedAt = "prune_remove")
        /\ pc \in {"exists", "dl_request", "handoff"}
               => Artifacts(store) \subseteq {latest_release_filename}

\* The least index of a list entry flagged as pre-release.
FirstFlagged(releases) ==
    CHOOSE i \in 1..Len(releases) :
        /\ releases[i].prerelease
        /\ \A j \in 1..(i - 1) : ~releases[j].prerelease

\* C7: on the pre-release channel, for every newest-first list the registry
\* returns, get_latest_release yields the first entry in list order whose
\* pre-release flag is set, and fails with "no pre-release found" when no entry
\* has it, the empty list included.
C7_FirstPrereleaseInOrder ==
    (pc # "init" /\ args.prelease /\ ~response.err /\ response.status = 200) =>
        IF \E i \in 1..Len(response.json) : response.json[i].prerelease
        THEN latest_release = response.json[FirstFlagged(response.json)]
        ELSE latest_release = False /\ report = "no_prerelease"

\* C7's case: two entries are flagged, and the first in list order, which is
\* not the one with the smaller tag, was taken.
C7_Witness ==
    /\ pc # "init"
    /\ args.prelease
    /\ response = Response(FALSE, 200, <<Release("B", TRUE), Release("A", TRUE)>>)
    /\ latest_release = Release("B", TRUE)

\* C8: when resolution fails, for whatever reason, the run ends without a
\* launch, a download or a deletion, even with an earlier build in the store.
C8_FailedResolutionNoHandoff ==
    (pc # "init" /\ ~Truthy(latest_release)) =>
        /\ pc \in {"main", "exit"}
        /\ ~HandedOff
        /\ downloads = 0

\* C8's case: no pre-release was found, the run has ended, and builds of
\* earlier releases are in the store.
C8_Witness ==
    /\ pc = "exit"
    /\ ~Truthy(latest_release)
    /\ report = "no_prerelease"
    /\ ~HandedOff
    /\ Artifacts(store) = {N1, N2}

\* C9: when the transfer fails, on the request's status or while the body is
\* read, the run ends there without a launch; a run that downloads reaches the
\* launch only after the stream ended and the file was closed.
C9_FailedTransferNoHandoff ==
    /\ (Died /\ diedAt \in Downloading) => ~HandedOff
    /\ (pc \in {"handoff", "child"} /\ downloads > 0) =>
           /\ body = 0
           /\ store[latest_release_filename] = FileEntry(TRUE)
    /\ (HandedOff /\ downloads > 0) => launched.entry = FileEntry(TRUE)

\* C9's case: the connection broke after a chunk was written.
C9_Witness ==
    /\ pc = "crashed"
    /\ diedAt = "dl_stream"
    /\ written > 0
    /\ body > 0
    /\ ~HandedOff

\* A second run on the candidate the run before it launched as a regular file.
SecondRunSameCandidate ==
    /\ prev # None
    /\ latest_release_filename = prev
    /\ IsFile(prev)

\* C10, as stated: a download starts exactly when the target is not in the
\* store; a second run on the same candidate downloads nothing and ends with
\* exactly one file matching the prefix, the target, and launches it.
C10_SecondRunExactlyOne ==
    /\ pc = "dl_request" => ~Exists(latest_release_filename)
    /\ (pc = "handoff" /\ downloads = 0) => Exists(latest_release_filename)
    /\ (SecondRunSameCandidate /\ pc \in {"child", "exit"}) =>
           /\ downloads = 0
           /\ launched.name = latest_release_filename
           /\ Artifacts(store) = {latest_release_filename}

\* C10, amended: a download starts exactly when the target is not in the
\* store; a second run on the same candidate downloads nothing, launches the
\* target and ends with the target in the store and no other file matching the
\* prefix: exactly one such file when the target's name has the prefix, none
\* when it has not.
C10_SecondRunNoDownload ==
    /\ pc = "dl_request" => ~Exists(latest_release_filename)
    /\ (pc = "handoff" /\ downloads = 0) => Exists(latest_release_filename)
    /\ (SecondRunSameCandidate /\ pc \in {"child", "exit"}) =>
           /\ downloads = 0
           /\ launched.name = latest_release_filename
           /\ IsFile(latest_release_filename)
           /\ Artifacts(store) =
                  IF GlobMatch(latest_release_filename)
                  THEN {latest_release_filename} ELSE {}

\* C10's case: the second run found the target and an old release, removed
\* the old release, downloaded nothing and launched the target.
C10_Witness ==
    /\ run = 2
    /\ SecondRunSameCandidate
    /\ pc = "exit"
    /\ downloads = 0
    /\ launched.name = N2
    /\ Artifacts(store) = {N2}

\* C11: in every run whose resolution yields a release, delete_old_releases
\* is called exactly once, whether or not the target is in the store.
C11_PrunedExactlyOnce ==
    (Truthy(latest_release) /\ pc \notin {"init", "main", "prune_list"})
        => prunes = 1

\* C12, as stated: in a run that downloads, the old releases are still there
\* while the transfer runs, and a run whose download fails has deleted none
\* of the files it found.
C12_FailedDownloadDeletesNothing ==
    /\ pc \in Downloading => Artifacts(store0) \subseteq Artifacts(store)
    /\ (Died /\ diedAt \in Downloading)
           => Artifacts(store0) \subseteq Artifacts(store)

\* C12, amended: in a run that downloads, delete_old_releases has been called
\* once and has returned before the exists check and the transfer (resolve,
\* prune, exists check, download, launch): during the transfer, at the launch,
\* and when the download fails, no file matching the prefix other than the
\* target is left.
C12_PrunedBeforeDownload ==
    /\ pc \in Downloading \cup {"handoff", "child"} =>
           /\ prunes = 1
           /\ Artifacts(store) \subseteq {latest_release_filename}
    /\ (Died /\ diedAt \in Downloading) =>
           /\ prunes = 1
           /\ Artifacts(store) \subseteq {latest_release_filename}

\* C12's case: the download request failed after two old releases were removed.
C12_Witness ==
    /\ pc = "crashed"
    /\ diedAt = "dl_request"
    /\ latest_release_filename = N3
    /\ Artifacts(store0) = {N1, N2}
    /\ Artifacts(store) = {}

\* The name starts with the literal prefix, character by character.
StartsWithPrefix(name) ==
    /\ Len(name) >= Len(Prefix)
    /\ \A i \in 1..Len(Prefix) : name[i] = Prefix[i]

\* The store holds nothing but regular files with the prefix, and not the target.
OnlyOlder(st, target) ==
    /\ st[target].kind = "none"
    /\ \A n \in Names :
          st[n].kind = "none" \/ (st[n].kind = "file" /\ StartsWithPrefix(n))

\* C13: from a store that holds only older releases, a run whose resolution
\* and transfer succeed ends with the store holding exactly the target, has
\* transferred exactly the declared size of the asset, and has launched the
\* target with the forwarded arguments.
C13_EndToEnd ==
    (pc = "exit" /\ HandedOff /\ OnlyOlder(store0, latest_release_filename)) =>
        /\ \A n \in Names : store[n].kind # "none" <=> n = latest_release_filename
        /\ store[latest_release_filename] = FileEntry(TRUE)
        /\ written = latest_release.assets[1].size
        /\ launched.name = latest_release_filename
        /\ launched.args = ParseKnownArgs(argv).unknown

\* C14: a 429 answer is reported as rate limiting, any other status that is
\* not a success and any transport error as a failed fetch; a 429 answer is
\* never reported as the failed fetch.
C14_RateLimitReported ==
    pc # "init" =>
        /\ (~response.err /\ response.status = 429) => report = "rate_limit"
        /\ (~response.err /\ response.status \notin {200, 429})
               => report = "fetch_failed"
        /\ response.err => report = "fetch_failed"

\* C15, as stated: once the command is started the launcher can end without
\* waiting for the command to end.
C15_HandoffDoesNotWait ==
    (pc = "child" /\ child = "running") => ENABLED SystemReturn

\* C15, amended: the handoff blocks: os.system returns only when the command
\* has ended, so the launcher ends only after the command has ended and
\* cannot end while the command runs.
C15_HandoffWaits ==
    /\ (pc = "exit" /\ HandedOff) => child = "exited"
    /\ (pc = "child" /\ child = "running") => ~ENABLED SystemReturn

\* C15's case: the command was started and runs, and the launcher waits.
C15_Witness ==
    /\ pc = "child"
    /\ child = "running"
    /\ HandedOff

\* C16, as stated: whenever a run starts a command, the command's name is the
\* name of the resolved release's first asset and a regular file of that name
\* is in the store.
C16_LaunchesExistingFile ==
    HandedOff =>
        /\ launched.name = latest_release.assets[1].name
        /\ launched.entry.kind = "file"

\* C16, amended: whenever a run starts a command, the command's name is the
\* name of the resolved release's first asset and the store holds an entry of
\* that name: a regular file, or a directory that the run found there.
C16_LaunchesResolvedName ==
    HandedOff =>
        /\ launched.name = latest_release.assets[1].name
        /\ launched.entry.kind # "none"
        /\ launched.entry.kind = "dir" => store0[launched.name] = DirEntry

\* C16's case: the store held an older release, the target was downloaded and
\* the target, not the older release, was started.
C16_Witness ==
    /\ HandedOff
    /\ downloads = 1
    /\ Artifacts(store0) = {N1}
    /\ launched.name = N3
    /\ launched.entry = FileEntry(TRUE)

\* C17: when resolution fails the run leaves the store as it found it: no
\* call of delete_old_releases, no file created, no download request.
C17_FailedResolutionKeepsStore ==
    (pc # "init" /\ ~Truthy(latest_release)) =>
        /\ store = store0
        /\ prunes = 0
        /\ downloads = 0

\* C17's case: the fetch failed, the run has ended, and the three builds it
\* found are still there.
C17_Witness ==
    /\ pc = "exit"
    /\ ~Truthy(latest_release)
    /\ report = "fetch_failed"
    /\ Artifacts(store0) = {N1, N2, N3}
    /\ store = store0

\* C18: delete_old_releases(exclude_file) changes an entry only by removing
\* it, and only if it is a regular file whose name starts with the prefix and
\* is not exclude_file; other names, directories and exclude_file stay.
C18_PruneRemovesOnlyOldFiles ==
    pc \in {"prune_loop", "prune_remove", "exists"} =>
        \A n \in Names :
            store[n] # store0[n] =>
                /\ store[n] = NoEntry
                /\ store0[n].kind = "file"
                /\ StartsWithPrefix(n)
                /\ n # latest_release_filename

\* C18's case: an old file was removed; a directory with the prefix, a file
\* without it and the excluded file were left.
C18_Witness ==
    /\ pc = "exists"
    /\ latest_release_filename = N3
    /\ store0 = [n \in Names |-> IF n = N1 THEN DirEntry ELSE FileEntry(TRUE)]
    /\ store = [store0 EXCEPT ![N2] = NoEntry]

\* C19: when the download request is answered with an error status, no file
\* is created under the target's name, and a next run on the same target
\* finds it missing and sends the download request again.
C19_ErrorStatusCreatesNoFile ==
    /\ (pc = "crashed" /\ diedAt = "dl_request" /\ RaisesForStatus(dl_status)) =>
           /\ store[latest_release_filename] = NoEntry
           /\ written = 0
    /\ (prevFailed # None /\ latest_release_filename = prevFailed) =>
           /\ pc = "exists" => ~Exists(prevFailed)
           /\ pc \in {"handoff", "child", "exit"} => downloads = 1

\* C19's case: the run before was answered 404 for this target, and this run
\* has sent the download request for it again.
C19_Witness ==
    /\ run = 2
    /\ prevFailed = N2
    /\ latest_release_filename = N2
    /\ pc = "dl_open"
    /\ downloads = 1
====
